---- MODULE Spec2Model ----
(***************************************************************************)
(* Model of repeat_plugin (src/plugin.py): RepeatHandler.execute, the      *)
(* per-group window of the last three texts, the last-repeated guard, the  *)
(* two probability gates and the outbound call to the gateway.             *)
(*                                                                         *)
(* A Python str is a sequence of one-character strings; Optional[x] is the *)
(* empty sequence (None) or the one-element sequence <<x>>.                *)
(***************************************************************************)
EXTENDS Integers, Sequences, FiniteSets, TLC

VARIABLES
    chat_history,           \* RepeatHandler.chat_history: group id -> deque(maxlen=3)
    last_repeated_message,  \* RepeatHandler.last_repeated_message: Optional[str]
    repeat_probability,     \* config repeat.repeat_probability, in units of 1/Scale
    skip_probability,       \* config repeat.skip_probability, in units of 1/Scale
    inp,                    \* the message handed to the latest invocation, as extracted
    ret,                    \* how the latest invocation ended: returned value or exception
    sent,                   \* the gateway calls made by the latest invocation
    draws,                  \* the random draws made by the latest invocation, in order
    run,                    \* invocations and echoes since construction (first MaxRun)
    seen,                   \* texts handled since construction, while pairwise distinct
    pending,                \* texts echoed, with no self-message of that text since
    last_echo,              \* text of the latest echo; a self-message of it seen since
    cleared,                \* text whose guard a self-message cleared, not yet re-triggered
    fed_back,               \* group of an echo its self-message has followed at once
    streak                  \* identical user messages since construction, echoes fed back

vars == <<chat_history, last_repeated_message, repeat_probability, skip_probability,
          inp, ret, sent, draws, run, seen, pending, last_echo, cleared,
          fed_back, streak>>

\* What execute reads and writes, and the record of its latest invocation.
handler_vars == <<chat_history, last_repeated_message, repeat_probability,
                  skip_probability, inp, ret, sent, draws, run, seen>>

\* The history of echoes and self-messages, recorded by SpecGuard only.
observer_vars == <<pending, last_echo, cleared, fed_back, streak>>

-----------------------------------------------------------------------------
(* Bounds *)

\* random.random() and the probabilities are multiples of 1/Scale:
\* a draw is in 0..Scale-1 (the interval [0,1)), a probability in 0..Scale ([0,1]).
\* At least 3, so that a draw can fall below, on and above the middle probability.
Scale == 3

\* Invocations and echoes are counted for the first MaxRun invocations.
MaxRun == 5

-----------------------------------------------------------------------------
(* Python values *)

None == <<>>

Some(x) == <<x>>

\* deque(maxlen=3)
maxlen == 3

Whitespace == {" ", "\t", "\n"}

Digits == {"0", "1", "2", "3", "4", "5", "6", "7", "8", "9"}

DigitValue(c) ==
    CASE c = "0" -> 0 [] c = "1" -> 1 [] c = "2" -> 2 [] c = "3" -> 3 [] c = "4" -> 4
      [] c = "5" -> 5 [] c = "6" -> 6 [] c = "7" -> 7 [] c = "8" -> 8 [] c = "9" -> 9

\* s[i:] (1-based i)
Drop(s, i) == SubSeq(s, i, Len(s))

\* s.startswith(prefix)
startswith(s, prefix) ==
    /\ Len(s) >= Len(prefix)
    /\ SubSeq(s, 1, Len(prefix)) = prefix

\* str.strip(): whitespace removed at both ends
RECURSIVE lstrip(_)
lstrip(s) ==
    IF s # <<>> /\ Head(s) \in Whitespace THEN lstrip(Tail(s)) ELSE s

RECURSIVE rstrip(_)
rstrip(s) ==
    IF s # <<>> /\ s[Len(s)] \in Whitespace THEN rstrip(SubSeq(s, 1, Len(s) - 1)) ELSE s

strip(s) == rstrip(lstrip(s))

\* _safe_str: str(x), "" for None
_safe_str(x) == IF x = None THEN <<>> ELSE x[1]

\* _first_text(*vals): the first value that is not None and not blank, stripped
RECURSIVE _first_text(_)
_first_text(vals) ==
    IF vals = <<>> THEN <<>>
    ELSE IF Head(vals) = None THEN _first_text(Tail(vals))
    ELSE IF strip(Head(vals)[1]) # <<>> THEN strip(Head(vals)[1])
    ELSE _first_text(Tail(vals))

\* int(str): surrounding whitespace, an optional sign, then decimal digits; any
\* other text raises ValueError ("_" separators and non-ASCII digits are left out).
\* The result is [ok |-> FALSE] (ValueError) or [ok |-> TRUE, value |-> n].
RECURSIVE DigitsValue(_, _)
DigitsValue(s, acc) ==
    IF s = <<>> THEN acc ELSE DigitsValue(Tail(s), 10 * acc + DigitValue(Head(s)))

int(s) ==
    LET t == strip(s)
        signed == t # <<>> /\ Head(t) \in {"+", "-"}
        body == IF signed THEN Tail(t) ELSE t
    IN  IF body # <<>> /\ \A i \in 1..Len(body) : body[i] \in Digits
        THEN [ok |-> TRUE,
              value |-> IF signed /\ Head(t) = "-" THEN 0 - DigitsValue(body, 0)
                        ELSE DigitsValue(body, 0)]
        ELSE [ok |-> FALSE, value |-> 0]

\* Length of the longest run of characters of set cs at the start of s.
RECURSIVE SpanLen(_, _)
SpanLen(s, cs) ==
    IF s # <<>> /\ Head(s) \in cs THEN 1 + SpanLen(Tail(s), cs) ELSE 0

\* notice_pattern = r'"post_type"\s*:\s*"notice"'
PostTypeLit == <<"\"", "p", "o", "s", "t", "_", "t", "y", "p", "e", "\"">>

NoticeLit == <<"\"", "n", "o", "t", "i", "c", "e", "\"">>

\* The pattern matches at the start of s.
NoticeMatchAt(s) ==
    /\ startswith(s, PostTypeLit)
    /\ LET a == Drop(s, Len(PostTypeLit) + 1)
           b == Drop(a, SpanLen(a, Whitespace) + 1)
       IN  /\ startswith(b, <<":">>)
           /\ LET c == Drop(b, 2)
                  d == Drop(c, SpanLen(c, Whitespace) + 1)
              IN  startswith(d, NoticeLit)

\* re.search(notice_pattern, text): a match anywhere in the text
re_search_notice(text) ==
    \E i \in 1..Len(text) : NoticeMatchAt(Drop(text, i))

\* pattern = r'@<([^:]+?):\d+>' at the start of s: the length of the match and
\* the captured name, or len 0 when it does not match here.
MentionMatchAt(s) ==
    LET nameLen == SpanLen(Drop(s, 3), {s[k] : k \in 1..Len(s)} \ {":"})
        rest == Drop(s, 3 + nameLen)           \* from the first ':' after "@<"
        nDigits == SpanLen(Drop(rest, 2), Digits)
    IN  IF /\ startswith(s, <<"@", "<">>)
           /\ nameLen >= 1
           /\ startswith(rest, <<":">>)
           /\ nDigits >= 1
           /\ startswith(Drop(rest, 2 + nDigits), <<">">>)
        THEN [len |-> 2 + nameLen + 1 + nDigits + 1, name |-> SubSeq(s, 3, 2 + nameLen)]
        ELSE [len |-> 0, name |-> <<>>]

\* re.sub(pattern, r'@\1', reply_text): leftmost non-overlapping matches rewritten
RECURSIVE re_sub_mention(_)
re_sub_mention(s) ==
    IF s = <<>> THEN <<>>
    ELSE LET m == MentionMatchAt(s)
         IN  IF m.len > 0
             THEN <<"@">> \o m.name \o re_sub_mention(Drop(s, m.len + 1))
             ELSE <<Head(s)>> \o re_sub_mention(Tail(s))

-----------------------------------------------------------------------------
(* Inbound messages *)

A == <<"a">>

B == <<"b">>

\* mention markup "@<n:1>"
Mention == <<"@", "<", "n", ":", "1", ">">>

\* '{"post_type": "notice"}'
NoticeText == <<"{">> \o PostTypeLit \o <<":", " ">> \o NoticeLit \o <<"}">>

\* "[CQ:x]"
MediaText == <<"[", "C", "Q", ":", "x", "]">>

\* A numeric group id and one that is not a number.
G12 == <<"1", "2">>

Gx == <<"g">>

\* A message is None (null) or carries what _dig finds at the probed paths, in
\* the order execute probes them: four candidates for the group id
\* (message_base_info.group_id, group_id, ctx.group_id, context.group_id), six
\* for the text (processed_plain_text, message_content, content,
\* message_base_info.content, raw_message, text), and the is_self attribute.
NullMessage == [null |-> TRUE, group_vals |-> <<>>, text_vals |-> <<>>, is_self |-> FALSE]

Msg(gv, tv, self) == [null |-> FALSE, group_vals |-> gv, text_vals |-> tv, is_self |-> self]

GroupNone == <<None, Some(<<" ">>), None, None>>

Group12 == <<Some(G12), None, None, None>>

GroupX == <<None, None, Some(<<" ", "g">>), Some(G12)>>

TextNone == <<None, None, None, None, None, None>>

TextBlank == <<None, Some(<<" ", "\n">>), Some(<<>>), None, None, None>>

TextAt1(t) == <<Some(t), None, None, None, None, Some(B)>>

TextAt5(t) == <<None, Some(<<" ">>), None, None, Some(<<" ">> \o t \o <<"\n">>), Some(B)>>

Messages ==
    {NullMessage}
    \cup {Msg(GroupNone, TextAt1(A), FALSE)}
    \cup {Msg(Group12, tv, FALSE) : tv \in {TextNone, TextBlank, TextAt1(MediaText)}}
    \cup {Msg(GroupX, TextAt5(NoticeText), TRUE)}
    \cup {Msg(Group12, TextAt1(t), self) : t \in {A, B, Mention}, self \in BOOLEAN}
    \cup {Msg(Group12, TextAt5(A), FALSE)}
    \cup {Msg(GroupX, TextAt1(A), FALSE)}

\* What the latest invocation was given: the extracted group id and text.
Extracted(message) ==
    IF message.null
    THEN [null |-> TRUE, group |-> <<>>, text |-> <<>>, is_self |-> FALSE]
    ELSE [null |-> FALSE,
          group |-> _first_text(message.group_vals),
          text |-> _first_text(message.text_vals),
          is_self |-> message.is_self]

\* The extraction, computed once per message of the model.
ExtractedOf == [message \in Messages |-> Extracted(message)]

\* random.random(): a value of [0,1)
Draws == 0..(Scale - 1)

\* The configured probabilities: 0.0, a value between (1/Scale), and 1.0.
Probabilities == {0, 1, Scale}

-----------------------------------------------------------------------------
(* RepeatHandler.execute *)

\* return True, True, None, None, None
Returned == [status |-> "return", value |-> <<TRUE, TRUE, None, None, None>>, exc |-> ""]

\* int(group_id) raises ValueError outside any try block
Raised(e) == [status |-> "raise", value |-> <<>>, exc |-> e]

\* A deque without maxlen: nothing is evicted.
append_no_evict(history, text) == Append(history, text)

\* history.append(text) on a deque(maxlen=3)
append(history, text) ==
    IF Len(history) < maxlen THEN Append(history, text)
    ELSE Append(Tail(history), text)

\* re.search(notice_pattern, text)
is_notice(text) == re_search_notice(text)

\* The prefix mistyped as "CQ:".
is_special_format_typo(text) == startswith(text, <<"C", "Q", ":">>)

\* text.startswith("[CQ:")
is_special_format(text) == startswith(text, <<"[", "C", "Q", ":">>)

\* The inner comparison left out: any third message of a group triggers.
is_trigger_no_compare(history, text) == Len(history) >= 2

\* Only the latest entry compared with the text.
is_trigger_last_only(history, text) ==
    /\ Len(history) >= 2
    /\ history[Len(history)] = text

\* len(history) >= 2 and history[-1] == history[-2] == text
is_trigger(history, text) ==
    /\ Len(history) >= 2
    /\ history[Len(history)] = history[Len(history) - 1]
    /\ history[Len(history) - 1] = text

\* The skip gate reading the other probability.
skip_gate_other_config(d) == d <= repeat_probability

\* random.random() <= skip_probability
skip_gate(d) == d <= skip_probability

\* random.random() <= repeat_probability
repeat_gate(d) == d <= repeat_probability

\* The comparison with last_repeated_message left out.
should_repeat_no_guard(reply_text) ==
    /\ reply_text # None
    /\ reply_text[1] # <<>>

\* reply_text and reply_text != self.last_repeated_message
should_repeat(reply_text) ==
    /\ reply_text # None
    /\ reply_text[1] # <<>>
    /\ reply_text # last_repeated_message

\* Any self-message clears the guard.
guard_cleared_by_any_self(text) == None

\* The self-message branch without its comparison and assignment.
guard_after_self_never(text) == last_repeated_message

\* if text == self.last_repeated_message: self.last_repeated_message = None
guard_after_self(text) ==
    IF Some(text) = last_repeated_message THEN None ELSE last_repeated_message

\* The assignment of the guard left out of the echo branch.
recorded_reply_none(reply_text, reply_text_cleaned) == last_repeated_message

\* The guard set to the text as sent, mention markup rewritten.
recorded_reply_cleaned(reply_text, reply_text_cleaned) == Some(reply_text_cleaned)

\* self.last_repeated_message = reply_text
recorded_reply(reply_text, reply_text_cleaned) == reply_text

\* A failed POST repeated once.
send_group_msg_retry(group_id, text, ok) ==
    IF ok THEN <<[group_id |-> group_id, text |-> text, ok |-> ok]>>
    ELSE <<[group_id |-> group_id, text |-> text, ok |-> ok],
           [group_id |-> group_id, text |-> text, ok |-> ok]>>

\* send_group_msg(group_id, text): one POST to the gateway; a failure of the
\* connection or of the request is caught and logged, the call returns normally.
send_group_msg(group_id, text, ok) ==
    <<[group_id |-> group_id, text |-> text, ok |-> ok]>>

\* The state an invocation leaves, with what it did.
Finish(message, history, guard, calls, nd, r) ==
    /\ chat_history' = history
    /\ last_repeated_message' = guard
    /\ sent' = calls
    /\ draws' = nd
    /\ ret' = r
    /\ inp' = ExtractedOf[message]
    /\ run' = IF run.n >= MaxRun THEN [n |-> MaxRun + 1, echoes |-> 0]
              ELSE [n |-> run.n + 1, echoes |-> run.echoes + Len(calls)]
    /\ seen' = LET t == ExtractedOf[message].text
               IN  IF ~seen.distinct \/ t = <<>> THEN seen
                   ELSE IF t \in seen.texts THEN [distinct |-> FALSE, texts |-> {}]
                   ELSE [distinct |-> TRUE, texts |-> seen.texts \cup {t}]
    /\ UNCHANGED <<repeat_probability, skip_probability>>

\* One deque shared by every group.
with_append_all(history, group_id, text) ==
    [g \in DOMAIN history |-> append(history[g], text)]

\* chat_history with text appended to the deque of group_id
with_append(history, group_id, text) ==
    [history EXCEPT ![group_id] = append(@, text)]

\* Lines 173-192: emit the echo unless the guard holds it back, then append.
repeat_and_update(message, history, group_id, text, reply_text, nd) ==
    IF should_repeat(reply_text)
    THEN LET reply_text_cleaned == re_sub_mention(reply_text[1])
             gid == int(group_id)
         IN  IF ~gid.ok
             THEN Finish(message, history, last_repeated_message, <<>>, nd,
                         Raised("ValueError"))
             ELSE \E ok \in BOOLEAN :
                     Finish(message, with_append(history, group_id, text),
                            recorded_reply(reply_text, reply_text_cleaned),
                            send_group_msg(gid.value, reply_text_cleaned, ok), nd,
                            Returned)
    ELSE Finish(message, with_append(history, group_id, text), last_repeated_message,
                <<>>, nd, Returned)

\* Lines 155-171: the trigger and the two probability gates.
detect_and_decide(message, history, group_id, text) ==
    IF is_trigger(history[group_id], text)
    THEN \E d1 \in Draws :
            IF skip_gate(d1)
            THEN Finish(message, with_append(history, group_id, text),
                        last_repeated_message, <<>>, <<d1>>, Returned)
            ELSE \E d2 \in Draws :
                    repeat_and_update(message, history, group_id, text,
                                      IF repeat_gate(d2) THEN Some(text) ELSE None,
                                      <<d1, d2>>)
    ELSE repeat_and_update(message, history, group_id, text, None, <<>>)

\* if group_id not in self.chat_history: self.chat_history[group_id] = deque(maxlen=3)
with_group(group_id) ==
    IF group_id \in DOMAIN chat_history THEN chat_history
    ELSE [g \in DOMAIN chat_history \cup {group_id} |->
             IF g = group_id THEN <<>> ELSE chat_history[g]]

Unchanged(message) ==
    Finish(message, chat_history, last_repeated_message, <<>>, <<>>, Returned)

execute(message) ==
    IF message.null THEN Unchanged(message)
    ELSE LET group_id == ExtractedOf[message].group IN
    IF group_id = <<>> THEN Unchanged(message)
    ELSE LET text == ExtractedOf[message].text IN
    IF text = <<>> THEN Unchanged(message)
    ELSE IF is_notice(text) THEN Unchanged(message)
    ELSE IF is_special_format(text) THEN Unchanged(message)
    ELSE IF message.is_self
    THEN Finish(message, chat_history, guard_after_self(text), <<>>, <<>>, Returned)
    ELSE detect_and_decide(message, with_group(_safe_str(Some(group_id))),
                           _safe_str(Some(group_id)), text)

-----------------------------------------------------------------------------
(* What an invocation was given and did, read off the recorded input *)

\* The message passes every filter of lines 92-135.
Accepted(x) ==
    /\ ~x.null
    /\ x.group # <<>>
    /\ x.text # <<>>
    /\ ~re_search_notice(x.text)
    /\ ~startswith(x.text, <<"[", "C", "Q", ":">>)

\* A message some filter of lines 92-135 stops.
Filtered(x) == ~Accepted(x)

\* An accepted message the bot wrote itself.
SelfMsg(x) == Accepted(x) /\ x.is_self

\* An accepted message of a user.
UserMsg(x) == Accepted(x) /\ ~x.is_self

\* The window of group g; empty while the group has none.
Window(history, g) == IF g \in DOMAIN history THEN history[g] ELSE <<>>

\* The last two entries of the group's window both equal the text.
Triggers(history, x) ==
    LET w == Window(history, x.group)
    IN  /\ Len(w) >= 2
        /\ w[Len(w)] = x.text
        /\ w[Len(w) - 1] = x.text

\* Both gates passed: the first draw above skip_probability, the second at most
\* repeat_probability.
GatesPassed(ds) ==
    /\ Len(ds) = 2
    /\ ds[1] > skip_probability
    /\ ds[2] <= repeat_probability

-----------------------------------------------------------------------------
(* Specifications *)

InitWith(configs) ==
    /\ chat_history = << >>
    /\ last_repeated_message = None
    /\ \E c \in configs : repeat_probability = c[1] /\ skip_probability = c[2]
    /\ inp = [null |-> TRUE, group |-> <<>>, text |-> <<>>, is_self |-> FALSE]
    /\ ret = [status |-> "none", value |-> <<>>, exc |-> ""]
    /\ sent = <<>>
    /\ draws = <<>>
    /\ run = [n |-> 0, echoes |-> 0]
    /\ seen = [distinct |-> TRUE, texts |-> {}]
    /\ pending = {}
    /\ last_echo = [text |-> None, self_since |-> FALSE]
    /\ cleared = None
    /\ fed_back = None
    /\ streak = [ok |-> TRUE, users |-> 0]

Handle == \E message \in Messages : execute(message)

\* Every configuration; the handler and the record of its latest invocation.
Init == InitWith(Probabilities \X Probabilities)

Next == Handle /\ UNCHANGED observer_vars

Spec == Init /\ [][Next]_vars

\* The invocations since construction are no longer a run of identical user
\* messages with each echo fed back.
NoStreak == [ok |-> FALSE, users |-> 0]

\* The history of echoes and self-messages of the step just taken.
Observe ==
    /\ pending' = IF sent' # <<>> THEN pending \cup {inp'.text}
                  ELSE IF SelfMsg(inp') THEN pending \ {inp'.text}
                  ELSE pending
    /\ last_echo' = IF sent' # <<>> THEN [text |-> Some(inp'.text), self_since |-> FALSE]
                    ELSE IF SelfMsg(inp') /\ last_echo.text = Some(inp'.text)
                    THEN [last_echo EXCEPT !.self_since = TRUE]
                    ELSE last_echo
    /\ cleared' = IF SelfMsg(inp') /\ last_repeated_message = Some(inp'.text)
                  THEN Some(inp'.text)
                  ELSE IF /\ UserMsg(inp')
                          /\ cleared = Some(inp'.text)
                          /\ Triggers(chat_history, inp')
                          /\ GatesPassed(draws')
                  THEN None
                  ELSE cleared
    /\ fed_back' = IF sent # <<>> /\ SelfMsg(inp') /\ inp'.text = inp.text
                   THEN Some(inp.group)
                   ELSE None
    /\ streak' = IF ~streak.ok \/ run.n >= MaxRun THEN NoStreak
                 ELSE IF streak.users = 0
                 THEN IF UserMsg(inp') THEN [ok |-> TRUE, users |-> 1] ELSE NoStreak
                 ELSE IF inp'.text # inp.text \/ inp'.group # inp.group THEN NoStreak
                 ELSE IF sent # <<>>
                 THEN IF SelfMsg(inp') THEN streak ELSE NoStreak
                 ELSE IF /\ UserMsg(inp')
                         /\ Triggers(chat_history, inp') => GatesPassed(draws')
                 THEN [streak EXCEPT !.users = @ + 1]
                 ELSE NoStreak

\* A configuration under which each gate can pass and can fail.
GuardConfigs == {<<1, 1>>}

InitGuard == InitWith(GuardConfigs)

NextGuard == Handle /\ Observe

SpecGuard == InitGuard /\ [][NextGuard]_vars

-----------------------------------------------------------------------------
(* Claims *)

\* The last n entries of s.
LastN(s, n) == IF Len(s) <= n THEN s ELSE SubSeq(s, Len(s) - n + 1, Len(s))

\* The window w after one more text: the last three of w followed by t.
Pushed(w, t) == LastN(w \o <<t>>, 3)

\* The latest invocation ended the third message of a run of three identical
\* user messages in one group, handled from the state after construction.
ThreeIdenticalFromEmpty ==
    /\ run.n = 3
    /\ UserMsg(inp)
    /\ DOMAIN chat_history = {inp.group}
    /\ \/ chat_history[inp.group] = <<inp.text, inp.text, inp.text>>
       \/ /\ chat_history[inp.group] = <<inp.text, inp.text>>
          /\ ret.status = "raise"

\* C1: from the state after construction, with repeat_probability = 1.0 and
\* skip_probability = 0.0, three consecutive identical user messages in one group
\* emit exactly one echo of the text, to that group, and leave
\* last_repeated_message equal to the text, whatever the random draws.
C1_ThreeIdenticalEchoOnce ==
    (ThreeIdenticalFromEmpty /\ repeat_probability = Scale /\ skip_probability = 0)
    => /\ run.echoes = 1
       /\ Len(sent) = 1
       /\ sent[1].text = re_sub_mention(inp.text)
       /\ int(inp.group).ok
       /\ sent[1].group_id = int(inp.group).value
       /\ last_repeated_message = Some(inp.text)

\* C2: while the texts of all messages handled so far are pairwise distinct, no
\* invocation emits an echo and last_repeated_message is never set to a text.
C2_DistinctNeverEcho ==
    seen.distinct => (sent = <<>> /\ last_repeated_message = None)

\* Three pairwise distinct accepted texts have filled one group's window, with
\* gates that would let an echo through.
C2_Witness ==
    /\ seen.distinct
    /\ repeat_probability = Scale
    /\ skip_probability = 0
    /\ UserMsg(inp)
    /\ Len(Window(chat_history, inp.group)) = 3

\* C3: with skip_probability = 1.0 no invocation emits an echo, whatever
\* repeat_probability and the draws, last_repeated_message stays unset, and a
\* triggering message is still appended to its group's window.
C3_SkipAlwaysNoEcho ==
    [][skip_probability = Scale =>
          /\ sent' = <<>>
          /\ last_repeated_message' = None
          /\ (UserMsg(inp') /\ Triggers(chat_history, inp')) =>
                Window(chat_history', inp'.group)
                    = Pushed(Window(chat_history, inp'.group), inp'.text)]_vars

\* A triggering message was handled under skip_probability = 1.0 and
\* repeat_probability = 1.0: one draw was made and the text is in the window.
C3_Witness ==
    /\ skip_probability = Scale
    /\ repeat_probability = Scale
    /\ UserMsg(inp)
    /\ Len(draws) = 1
    /\ chat_history[inp.group] = <<inp.text, inp.text, inp.text>>

\* C4 as stated: once an echo of a text has been emitted, no later invocation
\* emits an echo of that text until a self-message with that text is processed.
C4_NoReEchoWhilePending ==
    [][sent' # <<>> => inp'.text \notin pending]_vars

\* C4, amended: an echo is never emitted for the text of the latest echo (in any
\* group) unless a self-message with that text has been processed since that
\* echo; an echo of another text in between lifts the suppression.
C4_NoReEchoOfLatest ==
    [][sent' # <<>> =>
          ~(last_echo.text = Some(inp'.text) /\ ~last_echo.self_since)]_vars

\* A third identical message in the other group passed both gates and was not
\* echoed, its text being that of the latest echo with no self-message since.
C4_Witness ==
    /\ last_echo.text = Some(inp.text)
    /\ ~last_echo.self_since
    /\ UserMsg(inp)
    /\ inp.group = Gx
    /\ chat_history[Gx] = <<inp.text, inp.text, inp.text>>
    /\ GatesPassed(draws)
    /\ sent = <<>>
    /\ ret = Returned

\* C5: a self-message whose text equals last_repeated_message unsets it, and the
\* next trigger for that text, in any group, with both gates passing emits an
\* echo of it again.
C5_SelfClearsThenEchoAgain ==
    [][/\ (SelfMsg(inp') /\ last_repeated_message = Some(inp'.text))
            => last_repeated_message' = None
       /\ (/\ UserMsg(inp')
           /\ cleared = Some(inp'.text)
           /\ Triggers(chat_history, inp')
           /\ GatesPassed(draws'))
            => (Len(sent') = 1 /\ sent'[1].text = re_sub_mention(inp'.text))]_vars

\* C6: an invocation given a message flagged is_self emits no echo and leaves
\* every window as it was; when its text differs from last_repeated_message the
\* guard is left as it was too.
C6_SelfMessageFrame ==
    [][(~inp'.null /\ inp'.is_self) =>
          /\ sent' = <<>>
          /\ chat_history' = chat_history
          /\ (Some(inp'.text) # last_repeated_message
                => last_repeated_message' = last_repeated_message)]_vars

\* A self-message was handled whose text fills its group's window (a user
\* message would have triggered) while the guard holds another text.
C6_Witness ==
    /\ SelfMsg(inp)
    /\ Triggers(chat_history, inp)
    /\ last_repeated_message # None
    /\ last_repeated_message # Some(inp.text)

\* C7: every window holds at most 3 texts, and an append to a window holding
\* <<x, y, z>> leaves <<y, z, new>>.
C7_WindowBounded ==
    /\ [](\A g \in DOMAIN chat_history : Len(chat_history[g]) <= 3)
    /\ [][(/\ UserMsg(inp')
           /\ ret'.status = "return"
           /\ Len(Window(chat_history, inp'.group)) = 3) =>
             chat_history'[inp'.group] =
                <<chat_history[inp'.group][2], chat_history[inp'.group][3],
                  inp'.text>>]_vars

\* The fourth invocation appended a new text to the window the first three had
\* filled with one text (the third of them was echoed).
C7_Witness ==
    /\ run.n = 4
    /\ run.echoes = 1
    /\ sent = <<>>
    /\ UserMsg(inp)
    /\ Len(chat_history[inp.group]) = 3
    /\ chat_history[inp.group][1] = chat_history[inp.group][2]
    /\ chat_history[inp.group][3] = inp.text
    /\ chat_history[inp.group][2] # inp.text

\* C8: an invocation whose message hits a filter (null message, no group id, no
\* text, notice pattern, "[CQ:" prefix) emits no echo and leaves every window
\* and last_repeated_message as they were, flagged is_self or not.
C8_FilteredFrame ==
    [][Filtered(inp') =>
          /\ sent' = <<>>
          /\ chat_history' = chat_history
          /\ last_repeated_message' = last_repeated_message]_vars

\* A notice message flagged is_self was handled while windows and guard were set.
C8_Witness ==
    /\ ret.status = "return"
    /\ Filtered(inp)
    /\ inp.is_self
    /\ re_search_notice(inp.text)
    /\ last_repeated_message # None
    /\ DOMAIN chat_history = {G12, Gx}

\* C9: no invocation ends by raising.
C9_NeverRaises == ret.status # "raise"

\* C10: every invocation returns (True, True, None, None, None).
C10_AlwaysReturnsTuple ==
    run.n > 0 => (ret.status = "return" /\ ret.value = <<TRUE, TRUE, None, None, None>>)

\* C11: when an echo is emitted only the payload handed to the gateway has its
\* mention markup rewritten ("@<n:1>" becomes "@n"); the text appended to the
\* window and the text stored in last_repeated_message are the original text.
C11_RewriteInPayloadOnly ==
    [][sent' # <<>> =>
          /\ inp'.text = Mention => sent'[1].text = <<"@", "n">>
          /\ inp'.text \in {A, B} => sent'[1].text = inp'.text
          /\ last_repeated_message' = Some(inp'.text)
          /\ chat_history'[inp'.group][Len(chat_history'[inp'.group])] = inp'.text]_vars

\* An echo of "@<n:1>" was sent as "@n"; window and guard hold "@<n:1>".
C11_Witness ==
    /\ sent # <<>>
    /\ sent[1].text = <<"@", "n">>
    /\ inp.text = Mention
    /\ chat_history[inp.group] = <<Mention, Mention, Mention>>
    /\ last_repeated_message = Some(Mention)

\* C12: every accepted user message is appended to its group's window exactly
\* once by the invocation handling it, on every path; so each window holds the
\* last min(3, n) accepted texts of its group.
C12_AppendedOnEveryPath ==
    [][UserMsg(inp') =>
          Window(chat_history', inp'.group)
              = Pushed(Window(chat_history, inp'.group), inp'.text)]_vars

\* C13: an echo is emitted only by an invocation handling an accepted user
\* message whose text equals the last two entries of its own group's window
\* (at least 2 entries, before the append), and goes to that group with that
\* text; after a different text the window no longer ends in two such entries.
C13_EchoOnlyOnThird ==
    [][sent' # <<>> =>
          /\ UserMsg(inp')
          /\ Len(Window(chat_history, inp'.group)) >= 2
          /\ Triggers(chat_history, inp')
          /\ Len(sent') = 1
          /\ int(inp'.group).ok
          /\ sent'[1].group_id = int(inp'.group).value
          /\ sent'[1].text = re_sub_mention(inp'.text)]_vars

\* An echo was emitted into a window that held another text before the streak.
C13_Witness ==
    /\ sent # <<>>
    /\ UserMsg(inp)
    /\ sent[1].group_id = 12
    /\ chat_history[inp.group] = <<inp.text, inp.text, inp.text>>
    /\ DOMAIN chat_history = {G12, Gx}
    /\ last_repeated_message = Some(inp.text)

\* C14: for an accepted user message an echo is emitted exactly when the
\* trigger holds, the first draw is above skip_probability, the second draw is
\* at most repeat_probability and the text differs from last_repeated_message;
\* no draw is made without a trigger, the second only if the first did not
\* skip; at most one echo per message, after which the guard is the text.
C14_EchoIffAllGates ==
    [][UserMsg(inp') =>
          /\ sent' # <<>> <=> /\ Triggers(chat_history, inp')
                              /\ GatesPassed(draws')
                              /\ Some(inp'.text) # last_repeated_message
          /\ draws' # <<>> <=> Triggers(chat_history, inp')
          /\ Len(draws') = 2 <=> /\ Triggers(chat_history, inp')
                                 /\ draws'[1] > skip_probability
          /\ Len(sent') <= 1
          /\ sent' # <<>> => last_repeated_message' = Some(inp'.text)]_vars

\* C15: a failure of the gateway call during an echo does not leave the
\* handler: it returns (True, True, None, None, None), the guard is the text,
\* the text is appended, as after a successful call, and the call is made once.
C15_NotifierFailureSwallowed ==
    [][sent' # <<>> /\ ~sent'[1].ok =>
          /\ Len(sent') = 1
          /\ ret' = Returned
          /\ last_repeated_message' = Some(inp'.text)
          /\ chat_history' = [with_group(inp'.group) EXCEPT
                                 ![inp'.group] = Pushed(@, inp'.text)]]_vars

\* The gateway call of an echo failed and the handler returned.
C15_Witness ==
    /\ sent # <<>>
    /\ ~sent[1].ok
    /\ ret = Returned
    /\ last_repeated_message = Some(inp.text)
    /\ chat_history[inp.group] = <<inp.text, inp.text, inp.text>>

\* C16: last_repeated_message is overwritten with the echoed text when and only
\* when an echo is emitted, cleared when and only when a self-message with
\* that same text is processed, and left unchanged by every other step.
C16_GuardChangesTwoWays ==
    [][/\ sent' # <<>> => /\ last_repeated_message' = Some(inp'.text)
                          /\ last_repeated_message' # last_repeated_message
       /\ sent' = <<>> /\ SelfMsg(inp') /\ last_repeated_message = Some(inp'.text)
              => last_repeated_message' = None
       /\ sent' = <<>> /\ ~(SelfMsg(inp') /\ last_repeated_message = Some(inp'.text))
              => last_repeated_message' = last_repeated_message]_vars

\* The fourth invocation, a self-message with the text echoed by the third, has
\* cleared the guard.
C16_Witness ==
    /\ SelfMsg(inp)
    /\ last_repeated_message = None
    /\ run.n = 4
    /\ run.echoes = 1
    /\ chat_history[inp.group] = <<inp.text, inp.text, inp.text>>

\* C17: handling a message of group g leaves every other group's window
\* unchanged and creates no window but g's, and draws are made (the trigger
\* holds) exactly when g's own window ends in two entries equal to the text;
\* the same text interleaved across groups does not trigger.
C17_WindowsIsolated ==
    [][/\ \A g \in DOMAIN chat_history :
             g # inp'.group => /\ g \in DOMAIN chat_history'
                               /\ chat_history'[g] = chat_history[g]
       /\ DOMAIN chat_history' \subseteq DOMAIN chat_history \cup {inp'.group}
       /\ draws' # <<>> <=> UserMsg(inp') /\ Triggers(chat_history, inp')]_vars

\* Three messages "a" over two groups: no draw, no echo.
C17_Witness ==
    /\ run.n = 3
    /\ DOMAIN chat_history = {G12, Gx}
    /\ chat_history[G12] = <<A, A>>
    /\ chat_history[Gx] = <<A>>
    /\ draws = <<>>
    /\ sent = <<>>

\* C18: two successive echoes (no echo between them, in whatever groups) never
\* carry the same original text unless a self-message with exactly that text
\* was processed between them.
C18_SuccessiveEchoesDiffer ==
    [][sent' # <<>> /\ last_echo.text = Some(inp'.text) =>
          /\ last_echo.self_since
          /\ inp'.text \notin pending]_vars

\* The second of two successive echoes of one text, the self-message with that
\* text having been processed between them.
C18_Witness ==
    /\ run.n = 5
    /\ run.echoes = 2
    /\ sent # <<>>
    /\ last_echo.text = Some(inp.text)
    /\ pending = {inp.text}
    /\ last_repeated_message = Some(inp.text)

\* C19: in every reachable state last_repeated_message is unset or the original
\* text of the latest echo; so once an echo of A has been followed by an echo
\* of another text, a trigger for A with both gates passing emits A again with
\* no self-message of A in between.
C19_GuardIsLatestEcho ==
    /\ [](last_repeated_message = None \/ last_repeated_message = last_echo.text)
    /\ [][(/\ UserMsg(inp')
           /\ inp'.text \in pending
           /\ last_echo.text # Some(inp'.text)
           /\ Triggers(chat_history, inp')
           /\ GatesPassed(draws'))
            => (Len(sent') = 1 /\ sent'[1].text = re_sub_mention(inp'.text))]_vars

\* C20: the self-message that follows an echo of t in group g clears the guard
\* and does not enter the window; the very next user message t in g is a
\* trigger again and, both gates passing, is echoed; so in a run of n >= 3
\* identical user messages with every echo fed back and the gates always
\* passing, each user message from the third on is echoed (n - 2 echoes).
C20_StreakSurvivesEcho ==
    /\ [][(sent # <<>> /\ SelfMsg(inp') /\ inp'.text = inp.text)
            => (last_repeated_message' = None /\ chat_history' = chat_history)]_vars
    /\ [][(/\ fed_back # None
           /\ UserMsg(inp')
           /\ inp'.text = inp.text
           /\ inp'.group = fed_back[1])
            => /\ Triggers(chat_history, inp')
               /\ GatesPassed(draws') => (Len(sent') = 1 /\ sent'[1].text
                                              = re_sub_mention(inp'.text))]_vars
    /\ [](streak.ok /\ streak.users >= 3 /\ UserMsg(inp)
            => (sent # <<>> /\ run.echoes = streak.users - 2))

====
